---- MODULE Spec2Model ----
(***************************************************************************)
(* A model of nftfi.js: the Offers facade (src/src/nftfi/offers.js) and    *)
(* the MultisigGnosisOwner signer (src/cjs/nftfi/drops/og/index.cjs).      *)
(*                                                                         *)
(* JavaScript values are modelled as records, so that any two of them can  *)
(* be compared: an opaque value produced by a collaborator is              *)
(* [opaque |-> name], an error is [error |-> name], undefined is           *)
(* Undefined.  A property an object does not have is Absent.               *)
(***************************************************************************)
EXTENDS Naturals, Sequences, FiniteSets, TLC

\* ------------------------------------------------------------- bounds
\* Number of call slots of one Offers instance.
MaxCalls == 2
\* Longest signature string (in hex characters) a wallet produces.
MaxSigLen == 4

\* ------------------------------------------------------------- values
Absent == "absent"
Undefined == [undefined |-> "undefined"]
Pending == [pending |-> "pending"]
Opaque(n) == [opaque |-> n]
Err(n) == [error |-> n]

\* What the injected collaborators may resolve with, and fail with.
Payloads == {Opaque("p1"), Opaque("p2")}
Responses == {Opaque("r1"), Opaque("r2")}
Failures == {Err("e1"), Err("e2")}
ReferenceError == Err("ReferenceError")
TypeError == Err("TypeError")

\* The account's address, as account.getAddress() reports it.
AccountAddress == "0xLENDER"

V21 == "v2-1.loan.fixed"
V1 == "v1.loan.fixed"

\* ------------------------------------------------------------ offers.js
\* The fields an options object (and its listing sub-object) may carry:
\* a stands for any plain field, nftfi for nftfi.contract.name and
\* simulation for simulation.dryRun.
Fields == {"a", "nftfi", "simulation"}
NoFields == [f \in Fields |-> Absent]

RootObjects ==
  { [a |-> x, nftfi |-> n, simulation |-> s] :
      x \in {Absent, "2"}, n \in {Absent, V21, V1},
      s \in {Absent, "false", "true", "0", "yes"} }

\* An absent listing spreads like an empty one.
ListingObjects ==
  { NoFields,
    [a |-> "1", nftfi |-> Absent, simulation |-> Absent],
    [a |-> "1", nftfi |-> V21, simulation |-> "true"],
    [a |-> Absent, nftfi |-> V1, simulation |-> Absent] }

CreateOptions == [root : RootObjects, listing : ListingObjects]

\* Overlapping calls are explored on the options that reach each outcome.
OverlapOptions ==
  { o \in CreateOptions :
      /\ o.listing = NoFields
      /\ o.root.a = Absent
      /\ o.root.nftfi # Absent
      /\ o.root.simulation \in {Absent, "true"} }

\* get(options): noarg, null, {} and {filters: {}} carry no nft object.
GetOptions ==
  { [shape |-> sh, address |-> Absent, id |-> Absent] :
      sh \in {"noarg", "null", "empty", "filters"} }
  \cup { [shape |-> "nft", address |-> ad, id |-> i] :
           ad \in {Absent, "0xA"}, i \in {Absent, "42"} }

DeleteOptions == { [offer |-> i] : i \in {Absent, "7", "8"} }

RevokeOptions == { [nonce |-> n, name |-> V21] : n \in {"n1", "n2"} }

Calls == 1 .. MaxCalls

VARIABLES
  globalResponse,    \* the host's global binding named response, or NoBinding
  pc,                \* where each call is suspended
  op,                \* the method each call runs
  arg,               \* the options each call was given
  options,           \* create's local options after line 112
  simulationDryRun,  \* create's local simulationDryRun
  payload,           \* create's local payload
  log,               \* the collaborator invocations each call made, in order
  outcome            \* how each call ended

offersVars ==
  <<globalResponse, pc, op, arg, options, simulationDryRun, payload, log, outcome>>

NoBinding == [binding |-> "none"]
NoOutcome == [kind |-> "none", value |-> Undefined]
Returned(v) == [kind |-> "returned", value |-> v]
Threw(e) == [kind |-> "threw", value |-> e]
NoOptions == [fields |-> NoFields, listing |-> NoFields]

\* { ...base, ...obj }: every own field of obj overrides base's.
Spread(base, obj) ==
  [f \in Fields |-> IF obj[f] # Absent THEN obj[f] ELSE base[f]]

\* Line 112 with the spread order reversed: listing wins.
MergeListingWins(o) ==
  [fields |-> Spread(Spread(NoFields, o.root), o.listing), listing |-> o.listing]

\* Line 112: options = { ...options.listing, ...options }.
MergeOptions(o) ==
  [fields |-> Spread(Spread(NoFields, o.listing), o.root), listing |-> o.listing]

Truthy(v) == v \in {"true", "yes"}

\* Line 114: options?.simulation?.dryRun || false.
DryRunOf(m) ==
  IF Truthy(m.fields.simulation) THEN m.fields.simulation ELSE "false"

\* Line 115: options.nftfi.contract.name.
ContractNameOf(m) == m.fields.nftfi

\* Line 130-131: { errors: { 'nftfi.contract.name': [`${name} not supported`] } }.
ErrorsValue(name) ==
  [errors |-> [field |-> "nftfi.contract.name",
               messages |-> << <<name, " not supported">> >>]]

Invocation(fn, a) == [fn |-> fn, arg |-> a, ret |-> Pending]

\* The last invocation of call c is settled with r.
Settle(c, r) ==
  [log EXCEPT ![c] = [@ EXCEPT ![Len(@)] = [@ EXCEPT !.ret = r]]]

\* The call ends with outcome out.
Finish(c, out) ==
  /\ pc' = [pc EXCEPT ![c] = "done"]
  /\ outcome' = [outcome EXCEPT ![c] = out]

\* Lines 120/125/131 and 135: response = v; ...; return response.  response
\* is declared nowhere and a class body is strict code: the assignment
\* writes the host's global binding when there is one and raises a
\* ReferenceError when there is none.
AssignResponseAndReturn(c, v) ==
  IF globalResponse = NoBinding
  THEN /\ Finish(c, Threw(ReferenceError))
       /\ UNCHANGED globalResponse
  ELSE /\ globalResponse' = v
       /\ Finish(c, Returned(globalResponse'))

OthersIdle(c) == \A d \in Calls \ {c} : pc[d] = "idle"

Begin(c, name, o) ==
  /\ pc[c] = "idle"
  /\ op' = [op EXCEPT ![c] = name]
  /\ arg' = [arg EXCEPT ![c] = o]

\* Lines 53-69 of get: the query parameters.
GetParams(o) ==
  IF o.shape = "nft"
  THEN IF o.address # Absent /\ o.id # Absent
       THEN [nftAddress |-> o.address, nftId |-> o.id, lenderAddress |-> Absent]
       ELSE IF o.address # Absent
            THEN [nftAddress |-> o.address, nftId |-> Absent, lenderAddress |-> Absent]
            ELSE [nftAddress |-> Absent, nftId |-> Absent, lenderAddress |-> Absent]
  ELSE [nftAddress |-> Absent, nftId |-> Absent, lenderAddress |-> AccountAddress]

\* get, lines 52-73: up to the await of api.get.
GetCall(c, o) ==
  /\ Begin(c, "get", o)
  /\ log' = [log EXCEPT ![c] =
       <<Invocation("api.get", [uri |-> "offers", params |-> GetParams(o)])>>]
  /\ pc' = [pc EXCEPT ![c] = "awaitGet"]
  /\ UNCHANGED <<globalResponse, options, simulationDryRun, payload, outcome>>

\* get, lines 74-75: api.get resolved with { results: r }.
GetResolve(c, r) ==
  /\ pc[c] = "awaitGet"
  /\ log' = Settle(c, [results |-> r])
  /\ Finish(c, Returned(r))
  /\ UNCHANGED <<globalResponse, op, arg, options, simulationDryRun, payload>>

\* An awaited collaborator rejected with e: the call rejects with e.
Reject(c, at, e) ==
  /\ pc[c] = at
  /\ log' = Settle(c, e)
  /\ Finish(c, Threw(e))
  /\ UNCHANGED <<globalResponse, op, arg, options, simulationDryRun, payload>>

\* create, lines 111-118 and 129-135: up to the await of constructV2Offer.
CreateCall(c, o) ==
  /\ Begin(c, "create", o)
  /\ LET m == MergeOptions(o) IN
       /\ options' = [options EXCEPT ![c] = m]
       /\ simulationDryRun' = [simulationDryRun EXCEPT ![c] = DryRunOf(m)]
       /\ IF ContractNameOf(m) = Absent
          THEN /\ Finish(c, Threw(TypeError))
               /\ UNCHANGED <<globalResponse, log>>
          ELSE IF ContractNameOf(m) = V21
               THEN /\ log' = [log EXCEPT ![c] =
                          <<Invocation("helper.constructV2Offer", m)>>]
                    /\ pc' = [pc EXCEPT ![c] = "awaitHelper"]
                    /\ UNCHANGED <<globalResponse, outcome>>
               ELSE /\ AssignResponseAndReturn(c, ErrorsValue(ContractNameOf(m)))
                    /\ UNCHANGED log
  /\ UNCHANGED payload

\* The retry a fail-fast create must not make: a rejected post is posted again.
PostRejectRetry(c, e) ==
  /\ pc[c] = "awaitPost"
  /\ Len(log[c]) < 3
  /\ log' = [log EXCEPT ![c] =
       Append(Settle(c, e)[c],
              Invocation("api.post", [uri |-> "offers", payload |-> payload[c]]))]
  /\ UNCHANGED <<globalResponse, pc, op, arg, options, simulationDryRun, payload, outcome>>

\* create, line 120: api.post rejected with e.
PostReject(c, e) == Reject(c, "awaitPost", e)

\* create, lines 118-127: constructV2Offer resolved with p.
HelperResolve(c, p) ==
  /\ pc[c] = "awaitHelper"
  /\ payload' = [payload EXCEPT ![c] = p]
  /\ IF simulationDryRun[c] = "false"
     THEN /\ log' = [log EXCEPT ![c] =
               Append(Settle(c, p)[c],
                      Invocation("api.post", [uri |-> "offers", payload |-> p]))]
          /\ pc' = [pc EXCEPT ![c] = "awaitPost"]
          /\ UNCHANGED <<globalResponse, outcome>>
     ELSE /\ log' = Settle(c, p)
          /\ AssignResponseAndReturn(c, p)
  /\ UNCHANGED <<op, arg, options, simulationDryRun>>

\* create, lines 120-123 and 135: api.post resolved with r.
PostResolve(c, r) ==
  /\ pc[c] = "awaitPost"
  /\ log' = Settle(c, r)
  /\ AssignResponseAndReturn(c, r)
  /\ UNCHANGED <<op, arg, options, simulationDryRun, payload>>

\* delete, lines 156-158: up to the await of api.delete.
DeleteCall(c, o) ==
  /\ Begin(c, "delete", o)
  /\ IF o.offer = Absent
     THEN /\ Finish(c, Threw(TypeError))
          /\ UNCHANGED log
     ELSE /\ log' = [log EXCEPT ![c] =
               <<Invocation("api.delete", [uri |-> <<"offers/", o.offer>>])>>]
          /\ pc' = [pc EXCEPT ![c] = "awaitDelete"]
          /\ UNCHANGED outcome
  /\ UNCHANGED <<globalResponse, options, simulationDryRun, payload>>

\* revoke, line 182: up to the await of loans.revokeOffer.
RevokeCall(c, o) ==
  /\ Begin(c, "revoke", o)
  /\ log' = [log EXCEPT ![c] = <<Invocation("loans.revokeOffer", o)>>]
  /\ pc' = [pc EXCEPT ![c] = "awaitRevoke"]
  /\ UNCHANGED <<globalResponse, options, simulationDryRun, payload, outcome>>

\* delete line 159, revoke line 183: the collaborator's result is returned.
ResultResolve(c, r) ==
  /\ pc[c] \in {"awaitDelete", "awaitRevoke"}
  /\ log' = Settle(c, r)
  /\ Finish(c, Returned(r))
  /\ UNCHANGED <<globalResponse, op, arg, options, simulationDryRun, payload>>

\* The caller has taken the call's outcome; the slot is free again.
Release(c) ==
  /\ pc[c] = "done"
  /\ pc' = [pc EXCEPT ![c] = "idle"]
  /\ op' = [op EXCEPT ![c] = "none"]
  /\ arg' = [arg EXCEPT ![c] = Undefined]
  /\ options' = [options EXCEPT ![c] = NoOptions]
  /\ simulationDryRun' = [simulationDryRun EXCEPT ![c] = "false"]
  /\ payload' = [payload EXCEPT ![c] = Undefined]
  /\ log' = [log EXCEPT ![c] = <<>>]
  /\ outcome' = [outcome EXCEPT ![c] = NoOutcome]
  /\ UNCHANGED globalResponse

\* ------------------------------------------- drops/og/index.cjs
\* The options of new MultisigGnosisOwner(options): given is FALSE for an
\* undefined or null options, whose every field then reads as undefined.
OwnerFields ==
  {"signer", "privateKey", "provider", "ethers", "multisig", "config",
   "EthersAdapter", "Safe"}

OwnerOptions ==
  { [given |-> FALSE, signer |-> Absent, privateKey |-> Absent,
     provider |-> Absent, ethers |-> Absent, multisig |-> Absent,
     config |-> Absent, EthersAdapter |-> Absent, Safe |-> Absent] }
  \cup [given : {TRUE}, signer : {Absent, "signer"}, privateKey : {Absent, "k1", "k2"},
        provider : {Absent, "provider"}, ethers : {Absent, "ethers"},
        multisig : {Absent, "0xSAFE"}, config : {Absent, "chain1"},
        EthersAdapter : {Absent, "EthersAdapter"}, Safe : {Absent, "Safe"}]

\* What an injected signer's getAddress() may resolve with: an address, or
\* nothing usable (a falsy value).
NoAddress == ""
SignerAddresses == {"0xSIGNER", NoAddress}

\* The characters a signature string is drawn from (the four of the two
\* patterns and of '1f'), and the strings a wallet's signMessage may
\* resolve with.
HexChars == {"1", "b", "c", "f"}
Signatures == UNION { [1 .. n -> HexChars] : n \in 0 .. MaxSigLen }

LibraryError == Err("LibraryError")

VARIABLES
  owner,          \* the private fields of the MultisigGnosisOwner
  ownerPc,        \* new, ready, the await a call is suspended at, done
  ownerOp,        \* the method the current call runs
  signerAddress,  \* getAddress's local signerAddress
  rawSignature,   \* what wallet.signMessage resolved with
  ownerOutcome    \* how the current call ended

ownerVars == <<owner, ownerPc, ownerOp, signerAddress, rawSignature, ownerOutcome>>
vars == <<offersVars, ownerVars>>

NoOwner == [f \in OwnerFields \cup {"given"} |-> IF f = "given" THEN FALSE ELSE Absent]

\* The address each private key stands for.
AddressOfKey == [k1 |-> "0xKEY1", k2 |-> "0xKEY2"]

\* ethers.utils.computeAddress(key): the address of a key, an error for an
\* undefined one.
ComputeAddress(key) ==
  IF key = Absent THEN Threw(LibraryError)
  ELSE Returned([address |-> AddressOfKey[key]])

\* new ethers.Wallet(key, provider): an error for an undefined key.
NewWallet(key, provider) ==
  IF key = Absent THEN Threw(LibraryError)
  ELSE Returned([wallet |-> key, provider |-> provider])

OwnerFinish(out) ==
  /\ ownerPc' = "done"
  /\ ownerOutcome' = out

\* A constructor reading options.multisig without the optional chaining.
ConstructUnguarded(o) ==
  /\ ownerPc = "new"
  /\ IF o.given
     THEN /\ owner' = o
          /\ ownerPc' = "ready"
          /\ UNCHANGED ownerOutcome
     ELSE /\ ownerPc' = "failed"
          /\ ownerOutcome' = Threw(TypeError)
          /\ UNCHANGED owner
  /\ UNCHANGED <<ownerOp, signerAddress, rawSignature>>

\* constructor, lines 33-42: every field is options?.<field>.
Construct(o) ==
  /\ ownerPc = "new"
  /\ owner' = [f \in OwnerFields \cup {"given"} |->
                 IF f = "given" THEN o.given
                 ELSE IF o.given THEN o[f] ELSE Absent]
  /\ ownerPc' = "ready"
  /\ UNCHANGED <<ownerOp, signerAddress, rawSignature, ownerOutcome>>

OwnerBegin(name) ==
  /\ ownerPc = "ready"
  /\ ownerOp' = name

\* Line 54 preferring the key: computeAddress(privateKey) || signerAddress.
AddressKeyFirst(a) ==
  IF owner.ethers = Absent THEN Threw(TypeError)
  ELSE IF owner.privateKey # Absent THEN ComputeAddress(owner.privateKey)
       ELSE Returned([address |-> a])

\* getAddress, line 54: signerAddress || computeAddress(privateKey).
AddressOr(a) ==
  IF a # NoAddress THEN Returned([address |-> a])
  ELSE IF owner.ethers = Absent THEN Threw(TypeError)
       ELSE ComputeAddress(owner.privateKey)

\* getAddress, lines 52-54: up to the await of signer.getAddress(); without
\* a signer the awaited value is undefined.
GetAddressCall ==
  /\ OwnerBegin("getAddress")
  /\ IF owner.signer = Absent
     THEN OwnerFinish(AddressOr(NoAddress))
     ELSE /\ ownerPc' = "awaitSignerAddress"
          /\ UNCHANGED ownerOutcome
  /\ UNCHANGED <<owner, signerAddress, rawSignature>>

\* getAddress, lines 53-54: the signer reported a.
GetAddressResolve(a) ==
  /\ ownerPc = "awaitSignerAddress"
  /\ signerAddress' = a
  /\ OwnerFinish(AddressOr(a))
  /\ UNCHANGED <<owner, ownerOp, rawSignature>>

\* An awaited signer call rejected with e: the call rejects with e.
OwnerReject(e) ==
  /\ ownerPc \in {"awaitSignerAddress", "awaitSignature"}
  /\ OwnerFinish(Threw(e))
  /\ UNCHANGED <<owner, ownerOp, signerAddress, rawSignature>>

\* Lines 59 and 82-83: the explicit signer, else a wallet of the private key.
SignerOrWallet(provider) ==
  IF owner.signer # Absent THEN Returned([signer |-> owner.signer])
  ELSE IF owner.ethers = Absent THEN Threw(TypeError)
       ELSE NewWallet(owner.privateKey, provider)

\* getSafeSDK, lines 57-69.
SafeSDKOutcome ==
  IF owner.multisig = Absent THEN Threw(TypeError)
  ELSE LET s == SignerOrWallet(owner.provider) IN
         IF s.kind = "threw" THEN s
         ELSE IF owner.EthersAdapter = Absent \/ owner.Safe = Absent
              THEN Threw(TypeError)
              ELSE Returned([safeSDK |->
                     [ethAdapter |-> [ethers |-> owner.ethers, signer |-> s.value],
                      safeAddress |-> owner.multisig]])

GetSafeSDKCall ==
  /\ OwnerBegin("getSafeSDK")
  /\ OwnerFinish(SafeSDKOutcome)
  /\ UNCHANGED <<owner, signerAddress, rawSignature>>

\* sign, lines 71-81: up to the await of the typed-data hash.
SignCall ==
  /\ OwnerBegin("sign")
  /\ IF owner.multisig = Absent \/ owner.config = Absent \/ owner.ethers = Absent
     THEN OwnerFinish(Threw(TypeError))
     ELSE /\ ownerPc' = "awaitHash"
          /\ UNCHANGED ownerOutcome
  /\ UNCHANGED <<owner, signerAddress, rawSignature>>

\* sign, lines 82-84: up to the await of wallet.signMessage.
SignHashed ==
  /\ ownerPc = "awaitHash"
  /\ LET w == SignerOrWallet(Absent) IN
       IF w.kind = "threw"
       THEN OwnerFinish(w)
       ELSE /\ ownerPc' = "awaitSignature"
            /\ UNCHANGED ownerOutcome
  /\ UNCHANGED <<owner, ownerOp, signerAddress, rawSignature>>

Min(S) == CHOOSE i \in S : \A j \in S : i <= j

Matches(s, pat, i) ==
  /\ i + Len(pat) - 1 <= Len(s)
  /\ SubSeq(s, i, i + Len(pat) - 1) = pat

ReplaceAt(s, pat, rep, i) ==
  SubSeq(s, 1, i - 1) \o rep \o SubSeq(s, i + Len(pat), Len(s))

\* s.replace(/pat/, rep): the first match anywhere, the $ forgotten.
ReplaceFirstAnywhere(s, pat, rep) ==
  LET at == { i \in 1 .. Len(s) : Matches(s, pat, i) } IN
    IF at = {} THEN s ELSE ReplaceAt(s, pat, rep, Min(at))

\* s.replace(/pat$/, rep): the first match that ends at the end of s.
ReplaceAtEnd(s, pat, rep) ==
  LET at == { i \in 1 .. Len(s) :
                Matches(s, pat, i) /\ i + Len(pat) - 1 = Len(s) } IN
    IF at = {} THEN s ELSE ReplaceAt(s, pat, rep, Min(at))

\* sign, lines 85-86: .replace(/1b$/, '1f').replace(/1c$/, '20').
AdjustRecoveryByte(s) ==
  ReplaceAtEnd(ReplaceAtEnd(s, <<"1", "b">>, <<"1", "f">>),
               <<"1", "c">>, <<"2", "0">>)

\* sign, lines 84-87: signMessage resolved with s.
SignResolve(s) ==
  /\ ownerPc = "awaitSignature"
  /\ rawSignature' = s
  /\ OwnerFinish(Returned([signature |-> AdjustRecoveryByte(s)]))
  /\ UNCHANGED <<owner, ownerOp, signerAddress>>

\* The caller has taken the call's outcome; the owner is ready again.
OwnerRelease ==
  /\ ownerPc = "done"
  /\ ownerPc' = "ready"
  /\ ownerOp' = "none"
  /\ signerAddress' = NoAddress
  /\ rawSignature' = <<>>
  /\ ownerOutcome' = NoOutcome
  /\ UNCHANGED owner

OwnerInit ==
  /\ owner = NoOwner
  /\ ownerPc = "new"
  /\ ownerOp = "none"
  /\ signerAddress = NoAddress
  /\ rawSignature = <<>>
  /\ ownerOutcome = NoOutcome

OffersInit ==
  /\ globalResponse \in {NoBinding, Undefined}
  /\ pc = [c \in Calls |-> "idle"]
  /\ op = [c \in Calls |-> "none"]
  /\ arg = [c \in Calls |-> Undefined]
  /\ options = [c \in Calls |-> NoOptions]
  /\ simulationDryRun = [c \in Calls |-> "false"]
  /\ payload = [c \in Calls |-> Undefined]
  /\ log = [c \in Calls |-> <<>>]
  /\ outcome = [c \in Calls |-> NoOutcome]

Init == OffersInit /\ OwnerInit

\* One call at a time: the caller awaits each call before the next.
Next ==
  \E c \in Calls :
    \/ OthersIdle(c) /\ UNCHANGED ownerVars /\ \E o \in GetOptions : GetCall(c, o)
    \/ OthersIdle(c) /\ UNCHANGED ownerVars /\ \E o \in CreateOptions : CreateCall(c, o)
    \/ OthersIdle(c) /\ UNCHANGED ownerVars /\ \E o \in DeleteOptions : DeleteCall(c, o)
    \/ OthersIdle(c) /\ UNCHANGED ownerVars /\ \E o \in RevokeOptions : RevokeCall(c, o)
    \/ UNCHANGED ownerVars /\ \E r \in Responses : GetResolve(c, r)
    \/ UNCHANGED ownerVars /\ \E p \in Payloads : HelperResolve(c, p)
    \/ UNCHANGED ownerVars /\ \E r \in Responses : PostResolve(c, r)
    \/ UNCHANGED ownerVars /\ \E r \in Responses : ResultResolve(c, r)
    \/ UNCHANGED ownerVars /\ \E e \in Failures : PostReject(c, e)
    \/ UNCHANGED ownerVars /\ \E e \in Failures : Reject(c, "awaitGet", e)
    \/ UNCHANGED ownerVars /\ \E e \in Failures : Reject(c, "awaitHelper", e)
    \/ UNCHANGED ownerVars /\ \E e \in Failures : Reject(c, "awaitDelete", e)
    \/ UNCHANGED ownerVars /\ \E e \in Failures : Reject(c, "awaitRevoke", e)
    \/ UNCHANGED ownerVars /\ Release(c)

Spec == Init /\ [][Next]_vars

\* Overlapping create calls on one instance.
NextOverlap ==
  \E c \in Calls :
    \/ UNCHANGED ownerVars /\ \E o \in OverlapOptions : CreateCall(c, o)
    \/ UNCHANGED ownerVars /\ \E p \in Payloads : HelperResolve(c, p)
    \/ UNCHANGED ownerVars /\ \E r \in Responses : PostResolve(c, r)
    \/ UNCHANGED ownerVars /\ \E e \in Failures : PostReject(c, e)
    \/ UNCHANGED ownerVars /\ \E e \in Failures : Reject(c, "awaitHelper", e)
    \/ UNCHANGED ownerVars /\ Release(c)

SpecOverlap == Init /\ [][NextOverlap]_vars

\* One MultisigGnosisOwner, constructed once and then called; the Offers
\* instance stays unused.
NextOwner ==
  \/ UNCHANGED offersVars /\ \E o \in OwnerOptions : Construct(o)
  \/ UNCHANGED offersVars /\ GetAddressCall
  \/ UNCHANGED offersVars /\ \E a \in SignerAddresses : GetAddressResolve(a)
  \/ UNCHANGED offersVars /\ GetSafeSDKCall
  \/ UNCHANGED offersVars /\ SignCall
  \/ UNCHANGED offersVars /\ SignHashed
  \/ UNCHANGED offersVars /\ \E s \in Signatures : SignResolve(s)
  \/ UNCHANGED offersVars /\ \E e \in Failures : OwnerReject(e)
  \/ UNCHANGED offersVars /\ OwnerRelease

InitOwner == Init /\ globalResponse = NoBinding

SpecOwner == InitOwner /\ [][NextOwner]_vars

\* ------------------------------------------------- claims about Offers
Entries(c, fn) == { i \in 1 .. Len(log[c]) : log[c][i].fn = fn }
NoFailure(c) == \A i \in 1 .. Len(log[c]) : log[c][i].ret \notin Failures
PostArg(p) == [uri |-> "offers", payload |-> p]

\* C1: a create call for "v2-1.loan.fixed" with a falsy or unset dry-run flag
\* whose helper and API calls succeeded has posted the helper's payload to
\* 'offers' exactly once and has returned what api.post returned.
C1_PostedOnceAndReturned ==
  \A c \in Calls :
    ( /\ pc[c] = "done" /\ op[c] = "create"
      /\ ContractNameOf(options[c]) = V21
      /\ ~Truthy(options[c].fields.simulation)
      /\ NoFailure(c) )
    => /\ Cardinality(Entries(c, "api.post")) = 1
       /\ Len(log[c]) = 2
       /\ log[c][1].fn = "helper.constructV2Offer"
       /\ log[c][2].fn = "api.post"
       /\ log[c][2].arg = PostArg(log[c][1].ret)
       /\ outcome[c] = Returned(log[c][2].ret)

\* C2: a create call for "v2-1.loan.fixed" with a truthy dry-run flag never
\* invokes api.post and, once the helper has resolved, has returned exactly
\* the helper's payload.
C2_DryRunReturnsPayload ==
  \A c \in Calls :
    ( /\ op[c] = "create"
      /\ ContractNameOf(options[c]) = V21
      /\ Truthy(options[c].fields.simulation) )
    => /\ Entries(c, "api.post") = {}
       /\ (pc[c] = "done" /\ NoFailure(c))
            => /\ Len(log[c]) = 1
               /\ outcome[c] = Returned(log[c][1].ret)

\* C3: a create call whose contract name is a value other than
\* "v2-1.loan.fixed" invokes no collaborator and returns, without raising,
\* { errors: { "nftfi.contract.name": ["<name> not supported"] } }.
C3_UnsupportedNameReturnsErrors ==
  \A c \in Calls :
    ( /\ pc[c] = "done" /\ op[c] = "create"
      /\ ContractNameOf(options[c]) \notin {V21, Absent} )
    => /\ log[c] = <<>>
       /\ outcome[c] = Returned(ErrorsValue(ContractNameOf(options[c])))

\* C4: the api.get call of get carries {nftAddress, nftId} when both
\* filters.nft.address and filters.nft.id are present, {nftAddress} when only
\* the address is, and {lenderAddress: <account address>} in every other
\* case, a filters.nft object without an address included.
C4_GetParams ==
  \A c \in Calls :
    (op[c] = "get" /\ pc[c] # "idle")
    => /\ Len(log[c]) = 1
       /\ log[c][1].fn = "api.get"
       /\ log[c][1].arg.uri = "offers"
       /\ log[c][1].arg.params =
            IF arg[c].address # Absent /\ arg[c].id # Absent
            THEN [nftAddress |-> arg[c].address, nftId |-> arg[c].id,
                  lenderAddress |-> Absent]
            ELSE IF arg[c].address # Absent
                 THEN [nftAddress |-> arg[c].address, nftId |-> Absent,
                       lenderAddress |-> Absent]
                 ELSE [nftAddress |-> Absent, nftId |-> Absent,
                       lenderAddress |-> AccountAddress]

\* C7: the object handed to helper.constructV2Offer carries, for every field,
\* the root's value when the root has the field and the listing's value
\* otherwise; the contract name and the dry-run flag are read from that
\* object: the helper is invoked exactly when its name is "v2-1.loan.fixed",
\* and the payload is posted exactly when its dry-run flag is not truthy.
C7_MergedOptionsDecide ==
  \A c \in Calls :
    (op[c] = "create" /\ pc[c] # "idle")
    => LET want(f) == IF arg[c].root[f] # Absent
                      THEN arg[c].root[f] ELSE arg[c].listing[f]
       IN /\ (Entries(c, "helper.constructV2Offer") # {}) <=> (want("nftfi") = V21)
          /\ \A i \in Entries(c, "helper.constructV2Offer") :
               /\ \A f \in Fields : log[c][i].arg.fields[f] = want(f)
               /\ log[c][i].arg.listing = arg[c].listing
          /\ (Entries(c, "api.post") # {})
               <=> /\ want("nftfi") = V21
                   /\ ~Truthy(want("simulation"))
                   /\ \E i \in Entries(c, "helper.constructV2Offer") :
                        log[c][i].ret \in Payloads

\* C7's case: a field set on both levels, the name and the flag set on the
\* listing alone, and the helper has resolved.
C7_Witness ==
  \E c \in Calls :
    /\ pc[c] = "done" /\ op[c] = "create"
    /\ arg[c].root.a = "2" /\ arg[c].listing.a = "1"
    /\ arg[c].root.nftfi = Absent /\ arg[c].listing.nftfi = V21
    /\ arg[c].root.simulation = Absent /\ arg[c].listing.simulation = "true"
    /\ Len(log[c]) = 1 /\ log[c][1].ret \in Payloads

\* C10: within one call every collaborator operation is invoked at most
\* once; a failed invocation is the call's last one and the call has failed
\* with that same error; api.post is invoked only right after
\* constructV2Offer has completed.
C10_FailFast ==
  \A c \in Calls :
    /\ \A i, j \in 1 .. Len(log[c]) : log[c][i].fn = log[c][j].fn => i = j
    /\ \A i \in 1 .. Len(log[c]) :
         /\ log[c][i].ret \in Failures
              => /\ i = Len(log[c])
                 /\ pc[c] = "done"
                 /\ outcome[c] = Threw(log[c][i].ret)
         /\ log[c][i].fn = "api.post"
              => /\ i > 1
                 /\ log[c][i - 1].fn = "helper.constructV2Offer"
                 /\ log[c][i - 1].ret \in Payloads
         /\ log[c][i].ret = Pending => (i = Len(log[c]) /\ pc[c] # "done")

\* C10's case: a create call whose post failed after the helper succeeded.
C10_Witness ==
  \E c \in Calls :
    /\ pc[c] = "done" /\ op[c] = "create"
    /\ Len(log[c]) = 2
    /\ log[c][2].fn = "api.post" /\ log[c][2].ret \in Failures
    /\ outcome[c] = Threw(log[c][2].ret)

\* C9: with another create call suspended on the same instance, no call
\* writes a variable the other can read, and a call that ends without a
\* collaborator failure has returned its own result: its own API response,
\* its own dry-run payload or its own errors value.
C9_OwnResult ==
  /\ (\E c, d \in Calls :
        /\ c # d /\ pc[c] = "done" /\ op[c] = "create"
        /\ pc[d] \in {"awaitHelper", "awaitPost"})
       => globalResponse \in {NoBinding, Undefined}
  /\ \A c \in Calls :
       ( /\ pc[c] = "done" /\ op[c] = "create" /\ NoFailure(c)
         /\ ContractNameOf(options[c]) # Absent
         /\ \E d \in Calls \ {c} : pc[d] \in {"awaitHelper", "awaitPost"} )
       => outcome[c] =
            Returned(IF ContractNameOf(options[c]) # V21
                     THEN ErrorsValue(ContractNameOf(options[c]))
                     ELSE log[c][Len(log[c])].ret)

\* ------------------------------------ claims about MultisigGnosisOwner
Suffix(s) == IF Len(s) >= 2 THEN SubSeq(s, Len(s) - 1, Len(s)) ELSE <<>>
Prefix(s) == IF Len(s) >= 2 THEN SubSeq(s, 1, Len(s) - 2) ELSE s
SignReturned ==
  ownerPc = "done" /\ ownerOp = "sign" /\ ownerOutcome.kind = "returned"

\* C5: the signature sign returns is the wallet's signature s with a final
\* '1b' replaced by '1f', a final '1c' replaced by '20', and is s itself for
\* any other ending; it has the length of s and the characters of s before
\* the last two.
C5_RecoveryByteRewritten ==
  SignReturned =>
    LET s == rawSignature
        r == ownerOutcome.value.signature
    IN /\ Suffix(s) = <<"1", "b">> => r = Prefix(s) \o <<"1", "f">>
       /\ Suffix(s) = <<"1", "c">> => r = Prefix(s) \o <<"2", "0">>
       /\ Suffix(s) \notin {<<"1", "b">>, <<"1", "c">>} => r = s
       /\ Len(r) = Len(s)
       /\ \A i \in 1 .. Len(s) : i <= Len(s) - 2 => r[i] = s[i]

\* C5's case: a signature that holds '1b' before its final '1b'.
C5_Witness ==
  /\ SignReturned
  /\ rawSignature = <<"1", "b", "1", "b">>
  /\ ownerOutcome.value.signature = <<"1", "b", "1", "f">>

GetAddressReturned ==
  ownerPc = "done" /\ ownerOp = "getAddress" /\ ownerOutcome.kind = "returned"

\* C6 as stated: the address getAddress returns is the one the signer
\* reported whenever a signer was supplied, and the one computed from the
\* private key whenever none was.
C6_SignerAddressAlways ==
  GetAddressReturned =>
    IF owner.signer # Absent
    THEN ownerOutcome.value.address = signerAddress
    ELSE owner.privateKey # Absent
           => ownerOutcome.value.address = AddressOfKey[owner.privateKey]

\* C6 amended: the address getAddress returns is the one the signer
\* reported when a signer was supplied and reported a non-empty address,
\* whether or not a private key was supplied too; it is the address computed
\* from the stored private key when no signer was supplied or the signer
\* reported no address.
C6_SignerAddressIfReported ==
  GetAddressReturned =>
    IF owner.signer # Absent /\ signerAddress # NoAddress
    THEN ownerOutcome.value.address = signerAddress
    ELSE owner.privateKey # Absent
           => ownerOutcome.value.address = AddressOfKey[owner.privateKey]

\* C6's case: signer and private key both supplied, the signer's address
\* returned.
C6_Witness ==
  /\ GetAddressReturned
  /\ owner.signer # Absent /\ owner.privateKey # Absent
  /\ signerAddress = "0xSIGNER"
  /\ ownerOutcome.value.address = "0xSIGNER"

Unkeyed == owner.signer = Absent /\ owner.privateKey = Absent
OwnerCallDone ==
  ownerPc = "done" /\ ownerOp \in {"getAddress", "getSafeSDK", "sign"}

\* C8 as stated: construction never fails, and on an owner built with
\* neither signer nor private key every finished getAddress, getSafeSDK and
\* sign call has ended in the error of the delegated library call.
C8_LibraryErrorAlways ==
  /\ ownerPc # "failed"
  /\ (Unkeyed /\ OwnerCallDone) => ownerOutcome = Threw(LibraryError)

\* The references a method reads before it reaches the library call that
\* takes the private key.
ReadBeforeKey(name) ==
  IF name = "getAddress" THEN {"ethers"}
  ELSE IF name = "getSafeSDK" THEN {"multisig", "ethers"}
  ELSE {"multisig", "config", "ethers"}

\* C8 amended: construction never fails, and on an owner built with neither
\* signer nor private key every finished getAddress, getSafeSDK and sign
\* call has ended in an error and returned nothing: the error of the
\* delegated library call when every reference the method reads before that
\* call was supplied, the TypeError of reading a missing reference otherwise.
C8_FailsAtCallTime ==
  /\ ownerPc # "failed"
  /\ (Unkeyed /\ OwnerCallDone) =>
       /\ ownerOutcome.kind = "threw"
       /\ ownerOutcome.value =
            IF \A f \in ReadBeforeKey(ownerOp) : owner[f] # Absent
            THEN LibraryError
            ELSE TypeError

\* C8's case: an owner built with its libraries but with neither signer nor
\* private key, whose sign call failed in the library.
C8_Witness ==
  /\ Unkeyed /\ ownerPc = "done" /\ ownerOp = "sign"
  /\ owner.given /\ owner.ethers # Absent /\ owner.multisig # Absent
  /\ owner.config # Absent
  /\ ownerOutcome = Threw(LibraryError)
====
